---- MODULE Spec2Model ----
(***************************************************************************)
(* The mock-code executable of aiida-testing (aiida_testing/mock_code):    *)
(* run(), initialize(), store_results(), _exit(), get_hash(),              *)
(* strip_submit_content() and copy_files() of _cli.py, and the part of     *)
(* mock_code_factory (_fixtures.py) that decides the executable path.      *)
(*                                                                         *)
(* A file name is a sequence of characters, a path a sequence of names, a  *)
(* file's content a sequence of byte atoms, a directory tree a function    *)
(* from the paths of its files to their contents (directories are the      *)
(* proper prefixes of those paths).                                        *)
(***************************************************************************)
EXTENDS Naturals, Sequences, FiniteSets, TLC

(* ------------------------------------------------------------------ *)
(* Bounds                                                              *)
(* ------------------------------------------------------------------ *)
\* largest number of MPI ranks of one invocation
MaxRanks == 2
\* number of invocations that share the data directory
NumInv == 2
\* number of calls of mock_submit_calculation for one calculation
MaxCalls == 3

(* ------------------------------------------------------------------ *)
(* Names, byte atoms, trees                                            *)
(* ------------------------------------------------------------------ *)
SUBMIT_FILE == <<"_","a","i","i","d","a","s","u","b","m","i","t",".","s","h">>
AIIDA_DIR == <<".","a","i","i","d","a">>
N_in == <<"i","n">>
N_out == <<"o","u","t">>
N_log == <<"l","o","g">>
N_d == <<"d">>
N_e == <<"e">>
N_c == <<"c">>

\* the characters of the names above, in ASCII order
Alphabet == <<"*", ".", "?", "_", "a", "b", "c", "d", "e", "g", "h", "i", "l",
              "m", "n", "o", "s", "t", "u">>

CharOrd(ch) == CHOOSE k \in 1..Len(Alphabet) : Alphabet[k] = ch

\* byte atoms with a meaning for strip_submit_content
NL == "\n"
EXPORT_MOCK == "export AIIDA_MOCK"
MOCK_CODE_Q == "aiida-mock-code'"

\* an entry of a directory that is neither a regular file nor a directory
SPECIAL == <<"<not a regular file>">>

EmptyTree == <<>>

\* path.is_file() / path.is_dir() of a path of the tree
is_file(tree, p) == p \in DOMAIN tree /\ tree[p] # SPECIAL

Dirs(tree) == UNION {{SubSeq(p, 1, k) : k \in 1..(Len(p) - 1)} : p \in DOMAIN tree}

is_dir(tree, p) == p \in Dirs(tree)

\* every path below the root: what Path('.').glob('**/*') yields
AllPaths(tree) == DOMAIN tree \cup Dirs(tree)

\* the tree a with the files of b written over it
Overwrite(a, b) ==
    [p \in DOMAIN a \cup DOMAIN b |-> IF p \in DOMAIN b THEN b[p] ELSE a[p]]

Restrict(tree, S) == [p \in S |-> tree[p]]

\* the tree with the file at path from moved to path to
Moved(tree, from, to) ==
    [p \in (DOMAIN tree \ {from}) \cup {to} |-> IF p = to THEN tree[from] ELSE tree[p]]

WithFile(tree, path, bytes) == Overwrite(tree, [p \in {path} |-> bytes])

\* byte-wise order of two names, and the order of two paths by their parts
RECURSIVE NameLess(_, _)
NameLess(a, b) ==
    IF b = <<>> THEN FALSE
    ELSE IF a = <<>> THEN TRUE
    ELSE IF Head(a) = Head(b) THEN NameLess(Tail(a), Tail(b))
    ELSE CharOrd(Head(a)) < CharOrd(Head(b))

RECURSIVE PathLess(_, _)
PathLess(p, q) ==
    IF q = <<>> THEN FALSE
    ELSE IF p = <<>> THEN TRUE
    ELSE IF Head(p) = Head(q) THEN PathLess(Tail(p), Tail(q))
    ELSE NameLess(Head(p), Head(q))

RECURSIVE sorted(_)
sorted(S) ==
    IF S = {} THEN <<>>
    ELSE LET m == CHOOSE p \in S : \A q \in S \ {p} : PathLess(p, q)
         IN  <<m>> \o sorted(S \ {m})

\* fnmatch.fnmatch(name, pat) for patterns of literal characters, * and ?
RECURSIVE fnmatch(_, _)
fnmatch(name, pat) ==
    IF pat = <<>> THEN name = <<>>
    ELSE IF Head(pat) = "*"
         THEN fnmatch(name, Tail(pat)) \/ (name # <<>> /\ fnmatch(Tail(name), pat))
    ELSE IF name = <<>> THEN FALSE
    ELSE (Head(pat) = "?" \/ Head(pat) = Head(name)) /\ fnmatch(Tail(name), Tail(pat))

\* whether the last Len(pat) parts of path p match the parts of pat one by one:
\* PurePath.match with a relative pattern, and the test rglob makes of a path
MatchFromRight(p, pat) ==
    /\ Len(pat) >= 1
    /\ Len(p) >= Len(pat)
    /\ \A k \in 1..Len(pat) : fnmatch(p[Len(p) - Len(pat) + k], pat[k])

(* ------------------------------------------------------------------ *)
(* strip_submit_content and get_hash                                   *)
(* ------------------------------------------------------------------ *)
\* str.splitlines(): the lines of a content, without their line ends
RECURSIVE splitlines(_)
splitlines(bytes) ==
    IF bytes = <<>> THEN <<>>
    ELSE IF \E k \in 1..Len(bytes) : bytes[k] = NL
         THEN LET k == CHOOSE j \in 1..Len(bytes) :
                         bytes[j] = NL /\ \A h \in 1..(j - 1) : bytes[h] # NL
              IN  <<SubSeq(bytes, 1, k - 1)>> \o splitlines(SubSeq(bytes, k + 1, Len(bytes)))
         ELSE <<bytes>>

\* '\n'.join(lines)
RECURSIVE join(_)
join(lines) ==
    IF lines = <<>> THEN <<>>
    ELSE IF Len(lines) = 1 THEN lines[1]
    ELSE lines[1] \o <<NL>> \o join(Tail(lines))

\* line.split("aiida-mock-code'")[-1]: what follows the last occurrence
AfterLauncher(line) ==
    IF \E k \in 1..Len(line) : line[k] = MOCK_CODE_Q
    THEN LET k == CHOOSE j \in 1..Len(line) :
                    line[j] = MOCK_CODE_Q /\ \A h \in (j + 1)..Len(line) : line[h] # MOCK_CODE_Q
         IN  SubSeq(line, k + 1, Len(line))
    ELSE line

\* strip_submit_content keeping the lines that export AIIDA_MOCK variables
strip_submit_content_keeps_exports(aiidasubmit_content_bytes) ==
    LET lines == splitlines(aiidasubmit_content_bytes)
        cut == [k \in 1..Len(lines) |-> AfterLauncher(lines[k])]
    IN  join(cut)

strip_submit_content(aiidasubmit_content_bytes) ==
    LET lines == splitlines(aiidasubmit_content_bytes)
        kept == SelectSeq(lines, LAMBDA line : \A k \in 1..Len(line) : line[k] # EXPORT_MOCK)
        cut == [k \in 1..Len(kept) |-> AfterLauncher(kept[k])]
    IN  join(cut)

\* the bytes fed to md5sum for the paths of seq, in order
RECURSIVE HashUpdates(_, _)
HashUpdates(tree, seq) ==
    IF seq = <<>> THEN <<>>
    ELSE LET path == Head(seq)
             name == path[Len(path)]
             file_content_bytes ==
                 IF name = SUBMIT_FILE THEN strip_submit_content(tree[path]) ELSE tree[path]
         IN  (IF is_file(tree, path) /\ ~MatchFromRight(path, <<AIIDA_DIR, <<"*", "*">>>>)
              THEN name \o file_content_bytes
              ELSE <<>>) \o HashUpdates(tree, Tail(seq))

\* get_hash().hexdigest(): MD5 is taken to be injective, so the digest is
\* represented by the byte stream it was computed from
get_hash(tree) == HashUpdates(tree, sorted(AllPaths(tree)))

(* ------------------------------------------------------------------ *)
(* copy_files                                                          *)
(* ------------------------------------------------------------------ *)
\* src_dir.rglob(pattern): the existing paths whose last parts match the pattern
rglob(src, pattern) == {p \in AllPaths(src) : MatchFromRight(p, pattern)}

\* the names os.walk lists as filenames of directory dir
filenames(src, dir) ==
    {p[Len(p)] : p \in {q \in DOMAIN src :
                          Len(q) = Len(dir) + 1 /\ SubSeq(q, 1, Len(dir)) = dir}}

\* dirs_to_check without the parents
dirs_to_check_no_parents(relative_dir) == {relative_dir}

\* list(relative_dir.parents) + [relative_dir]; <<>> stands for '.'
dirs_to_check(relative_dir) == {SubSeq(relative_dir, 1, k) : k \in 0..Len(relative_dir)}

\* whether a pattern of ignore_files matches the file name
ignored_file(filename, ignore_files) ==
    \E k \in 1..Len(ignore_files) : fnmatch(filename, ignore_files[k])

\* relative_file_path without the directory
relative_file_path_flat(relative_dir, filename) == <<filename>>

\* dest_dir / relative_dir / filename: where a copied file is written
relative_file_path(relative_dir, filename) == relative_dir \o <<filename>>

\* the destination tree after copy_files(src_dir, dest_dir, ignore_files, ignore_paths)
copy_files(src, dest, ignore_files, ignore_paths) ==
    LET exclude_paths == UNION {rglob(src, ignore_paths[k]) : k \in 1..Len(ignore_paths)}
        exclude_files == {p \in exclude_paths : is_file(src, p)}
        exclude_dirs == {p \in exclude_paths : is_dir(src, p)}
        skipped(relative_dir) ==
            \/ Len(relative_dir) > 0 /\ relative_dir[1] = AIIDA_DIR
            \/ \E exclude_dir \in exclude_dirs : exclude_dir \in dirs_to_check(relative_dir)
        walked == {d \in {<<>>} \cup Dirs(src) : ~skipped(d)}
        kept(d) == {f \in filenames(src, d) :
                      ~ignored_file(f, ignore_files) /\ (d \o <<f>>) \notin exclude_files}
        \* the pairs <<source path, destination path>> of the shutil.copyfile calls
        copies == UNION {{<<d \o <<f>>, relative_file_path(d, f)>> : f \in kept(d)} : d \in walked}
        written == {c[2] : c \in copies}
    IN  [p \in DOMAIN dest \cup written |->
            IF p \in written
            THEN src[(CHOOSE c \in copies : c[2] = p)[1]]
            ELSE dest[p]]

(* ------------------------------------------------------------------ *)
(* mock_code_factory: the executable path exported to the mock code    *)
(* ------------------------------------------------------------------ *)
REAL_EXE == "/usr/bin/real-code"
NO_LABEL == "<label not in mock_code config>"

\* code_executable_path of _get_mock_code: entry is the configuration's value for
\* the label (NO_LABEL when it holds none), which is shutil.which(executable_name)
\* ("" when nothing is found)
code_executable_path(entry, executable_name, which) ==
    LET configured == IF entry = NO_LABEL THEN "TO_SPECIFY" ELSE entry
    IN  IF configured = "" /\ executable_name # ""
        THEN (IF which # "" THEN which ELSE "NOT_FOUND")
        ELSE configured

\* the inputs of _get_mock_code that matter for the executable path
FactoryInputs ==
    {[entry |-> NO_LABEL, executable_name |-> "", which |-> ""],
     [entry |-> "", executable_name |-> "", which |-> ""],
     [entry |-> "", executable_name |-> "real-code", which |-> ""],
     [entry |-> "", executable_name |-> "real-code", which |-> REAL_EXE],
     [entry |-> REAL_EXE, executable_name |-> "", which |-> ""]}

\* whether subprocess.call finds a program to execute under this path
resolves(path) == path = REAL_EXE

(* ------------------------------------------------------------------ *)
(* State                                                               *)
(* ------------------------------------------------------------------ *)
Invs == 1..NumInv
Ranks == 0..(MaxRanks - 1)

VARIABLES
    config,           \* the configuration's entry for the label (NO_LABEL: none)
    executable_path,  \* AIIDA_MOCK_EXECUTABLE_PATH
    ignore_files,     \* AIIDA_MOCK_IGNORE_FILES, split at ':'
    ignore_paths,     \* AIIDA_MOCK_IGNORE_PATHS, split at ':' (each pattern split at '/')
    outputs,          \* the relative paths the real executable writes
    cache,            \* the data directory: res_dir name |-> tree, for the existing res_dirs
    nranks,           \* per invocation: size of MPI.COMM_WORLD, 0 when mpi4py is not importable
    regenerate_data,  \* per invocation: AIIDA_MOCK_REGENERATE_DATA == 'True'
    envset,           \* per invocation: whether the AIIDA_MOCK variables are exported
    input,            \* per invocation: the working directory at its start
    cwd,              \* per invocation: the working directory
    pc,               \* per invocation and rank: where the process is in run()
    run_executable,   \* per invocation and rank: the local of run()
    res_dir,          \* per invocation and rank: the local of run()
    sent,             \* per invocation: the objects rank 0 has broadcast so far
    todo,             \* per invocation: the names of res_dir.iterdir() still to copy
    aborted,          \* per invocation: MPI_COMM.Abort was called
    received,         \* per invocation and rank: both bcast calls have returned
    existed,          \* per invocation: whether the res_dir existed at line 71
    evicted,          \* per invocation: initialize removed the res_dir (line 72)
    found,            \* per invocation: what res_dir.exists() gave at line 74
    preceded,         \* per invocation: the invocations that had ended when it started
    events,           \* per invocation: what its processes did, as [rank, what, received]
    regenerate_extra, \* the code's extra REGENERATE_DATA (_fixtures.py, line 197)
    process_cwd,      \* the directory the test process runs in, which get_hash() reads
    workdir,          \* calculation.get_remote_workdir(), as a tree
    job_id,           \* calculation.get_job_id(): "None" until set_job_id
    submit_pc,        \* where the test process is in mock_submit_calculation
    submit_res_dir,   \* the local res_dir of mock_submit_calculation
    submit_todo,      \* the names of res_dir.iterdir() mock_submit_calculation has to copy
    submitted,        \* the job ids scheduler.submit_from_script has handed out
    returns           \* how the calls of mock_submit_calculation ended, in order

vars == <<config, executable_path, ignore_files, ignore_paths, outputs, cache, nranks,
          regenerate_data, envset, input, cwd, pc, run_executable, res_dir, sent, todo,
          aborted, received, existed, evicted, found, preceded, events,
          regenerate_extra, process_cwd, workdir, job_id, submit_pc, submit_res_dir,
          submit_todo, submitted, returns>>

\* the state of the calculation and of the call of mock_submit_calculation
submission == <<regenerate_extra, process_cwd, workdir, job_id, submit_pc, submit_res_dir,
                submit_todo, submitted, returns>>

\* the state of the invocations of the mock executable
invocations == <<nranks, regenerate_data, envset, input, cwd, pc, run_executable, res_dir,
                 sent, todo, aborted, received, existed, evicted, found, preceded, events>>

settings == <<config, executable_path, ignore_files, ignore_paths, outputs>>

Terminal == {"none", "done", "raised", "exited", "aborted", "killed"}

\* is_leader with the test of the rank dropped
is_leader_every_rank(n, r) == TRUE

\* MPI_RANK == 0 or MPI_RANK is None, for rank r of a group of n (n = 0: no MPI)
is_leader(n, r) == n = 0 \/ r = 0

\* stores_results with the test of line 49 dropped
stores_results_every_rank(n, r) == TRUE

\* line 49: whether the process calls store_results after the executable
stores_results(n, r) == is_leader(n, r)

\* Path(data_dir) / f"mock-{label}-{hash_digest}"
LABEL == "x"
DATA_DIR == "/data"
ResDir(data_dir, label, hash_digest) == <<data_dir, "mock-", label, "-">> \o hash_digest

\* the local res_dir of a process that has not assigned one: ""
NO_DIR == <<>>

\* calculation.get_job_id() of a calculation whose job id was never set
NONE == "None"

\* the bytes the real executable writes in invocation i
RunOutput(i) == <<"bytes written by run", ToString(i)>>

\* the working directory after the real executable has run in it
after_command(tree, i) == Overwrite(tree, [p \in outputs |-> RunOutput(i)])

Event(i, r, what) == [rank |-> r, what |-> what, received |-> received[i][r]]

\* replay_item copying directories only
replay_item_skips_files(entry, tree, name) ==
    IF is_dir(entry, <<name>>)
    THEN LET kept == {q \in DOMAIN tree : q[1] # name}
             copied == {q \in DOMAIN entry : q[1] = name}
         IN  [q \in kept \cup copied |-> IF q \in copied THEN entry[q] ELSE tree[q]]
    ELSE tree

\* replay_item writing a cached directory over the one of the working directory
\* without removing it first
replay_item_merges(entry, tree, name) ==
    IF is_dir(entry, <<name>>)
    THEN Overwrite(tree, Restrict(entry, {q \in DOMAIN entry : q[1] = name}))
    ELSE IF is_file(entry, <<name>>)
    THEN Overwrite(tree, Restrict(entry, {<<name>>}))
    ELSE tree

\* whether copying res_dir's entry name raises (lines 79-82): shutil.copytree finds
\* a file of that name, which rmtree(..., ignore_errors=True) has left in place
\* (FileExistsError), or shutil.copyfile finds a directory (IsADirectoryError)
replay_raises(entry, tree, name) ==
    \/ is_dir(entry, <<name>>) /\ <<name>> \in DOMAIN tree
    \/ is_file(entry, <<name>>) /\ is_dir(tree, <<name>>)

\* the tree with res_dir's top-level entry name copied over it (lines 78-82): a
\* directory replaces the one of the working directory, a file overwrites the file
replay_item(entry, tree, name) ==
    IF is_dir(entry, <<name>>)
    THEN LET kept == {q \in DOMAIN tree : q[1] # name}
             copied == {q \in DOMAIN entry : q[1] = name}
         IN  [q \in kept \cup copied |-> IF q \in copied THEN entry[q] ELSE tree[q]]
    ELSE IF is_file(entry, <<name>>)
    THEN Overwrite(tree, Restrict(entry, {<<name>>}))
    ELSE tree

\* regenerates never removing the res_dir
regenerates_never(regenerate, exists) == FALSE

\* line 71: regenerate_data and res_dir.exists()
regenerates(regenerate, exists) == regenerate /\ exists

\* rmtree emptying the directory and leaving it in place
rmtree_keeps_dir(data, dir) == [d \in DOMAIN data |-> IF d = dir THEN EmptyTree ELSE data[d]]

\* shutil.rmtree(res_dir), line 72: the data directory without the res_dir
rmtree(data, dir) == Restrict(data, DOMAIN data \ {dir})

\* os.makedirs with exist_ok=True
makedirs_exist_ok(data, dir) == FALSE

\* os.makedirs(res_dir) raises FileExistsError
makedirs_raises(data, dir) == dir \in DOMAIN data

\* bcast leaving every process with its own object
bcast_keeps_obj(obj, root_obj) == obj

\* the object a process holds after MPI_COMM.bcast(obj, root=0)
bcast(obj, root_obj) == root_obj

\* a process of invocation j has nothing left to do: it has ended, or it waits in
\* bcast for a rank 0 that has ended
Stopped(j, r) ==
    \/ pc[j][r] \in Terminal
    \/ r # 0 /\ pc[j][r] \in {"bcast1", "bcast2"} /\ pc[j][0] \in Terminal /\ ~aborted[j]

Ended(j) == pc[j][0] # "idle" /\ \A r \in Ranks : Stopped(j, r)

(* ------------------------------------------------------------------ *)
(* Actions                                                             *)
(* ------------------------------------------------------------------ *)
\* a group of n ranks (n = 0: one process without mpi4py) enters run() in the
\* working directory tree; lines 37-40
Start(i, n, regen, env, tree) ==
    /\ pc[i][0] = "idle"
    /\ nranks' = [nranks EXCEPT ![i] = n]
    /\ regenerate_data' = [regenerate_data EXCEPT ![i] = regen]
    /\ envset' = [envset EXCEPT ![i] = env]
    /\ input' = [input EXCEPT ![i] = tree]
    /\ cwd' = [cwd EXCEPT ![i] = tree]
    /\ pc' = [pc EXCEPT ![i] = [r \in Ranks |->
                 IF r > 0 /\ r >= n THEN "none"
                 ELSE IF is_leader(n, r) THEN "initialize" ELSE "bcast1"]]
    /\ preceded' = [preceded EXCEPT ![i] = {j \in Invs \ {i} : Ended(j)}]
    /\ UNCHANGED <<settings, submission, cache, run_executable, res_dir, sent, todo, aborted,
                   received, existed, evicted, found, events>>

\* _exit(msg) called by rank r: the pc it ends in, and whether the group is aborted
exit_pc(i, r) == IF nranks[i] > 0 /\ r = 0 THEN "aborted" ELSE "exited"

exit_aborts(i, r) == nranks[i] > 0 /\ r = 0

\* initialize, lines 62-72: read the control variables, hash the working
\* directory, remove the res_dir when asked to regenerate
initialize_regenerate(i, r) ==
    /\ pc[i][r] = "initialize"
    /\ IF ~envset[i]
       THEN \* KeyError of os.environ[...]
            /\ pc' = [pc EXCEPT ![i][r] = "raised"]
            /\ UNCHANGED <<res_dir, cache, existed, evicted>>
       ELSE LET dir == ResDir(DATA_DIR, LABEL, get_hash(cwd[i]))
                remove == regenerates(regenerate_data[i], dir \in DOMAIN cache)
            IN  /\ res_dir' = [res_dir EXCEPT ![i][r] = dir]
                /\ existed' = [existed EXCEPT ![i] = dir \in DOMAIN cache]
                /\ cache' = IF remove THEN rmtree(cache, dir) ELSE cache
                /\ evicted' = [evicted EXCEPT ![i] = evicted[i] \/ remove]
                /\ pc' = [pc EXCEPT ![i][r] = "check"]
    /\ UNCHANGED <<settings, submission, nranks, regenerate_data, envset, input, cwd, run_executable,
                   sent, todo, aborted, received, found, preceded, events>>

\* initialize, lines 74-77 and 88-92: res_dir.exists()
initialize_exists(i, r) ==
    /\ pc[i][r] = "check"
    /\ found' = [found EXCEPT ![i] = IF res_dir[i][r] \in DOMAIN cache THEN "hit" ELSE "miss"]
    /\ IF res_dir[i][r] \in DOMAIN cache
       THEN /\ todo' = [todo EXCEPT ![i][r] = {p[1] : p \in DOMAIN cache[res_dir[i][r]]}]
            /\ pc' = [pc EXCEPT ![i][r] = "replay"]
            /\ UNCHANGED <<run_executable, aborted>>
       ELSE IF executable_path = ""
       THEN \* _exit("No existing output, and no executable specified.")
            /\ pc' = [pc EXCEPT ![i][r] = exit_pc(i, r)]
            /\ aborted' = [aborted EXCEPT ![i] = aborted[i] \/ exit_aborts(i, r)]
            /\ UNCHANGED <<run_executable, todo>>
       ELSE \* return True, res_dir
            /\ run_executable' = [run_executable EXCEPT ![i][r] = "True"]
            /\ pc' = [pc EXCEPT ![i][r] = "bcast1"]
            /\ UNCHANGED <<todo, aborted>>
    /\ UNCHANGED <<settings, submission, cache, nranks, regenerate_data, envset, input, cwd, res_dir,
                   sent, received, existed, evicted, preceded, events>>

\* initialize, lines 77-84: one round of the loop over res_dir.iterdir()
initialize_copy(i, r, name) ==
    /\ pc[i][r] = "replay"
    /\ name \in todo[i][r]
    /\ LET entry == IF res_dir[i][r] \in DOMAIN cache THEN cache[res_dir[i][r]] ELSE EmptyTree
       IN  IF replay_raises(entry, cwd[i], name)
           THEN /\ pc' = [pc EXCEPT ![i][r] = "raised"]
                /\ UNCHANGED <<cwd, todo, events, aborted>>
           ELSE IF is_dir(entry, <<name>>) \/ is_file(entry, <<name>>)
           THEN /\ cwd' = [cwd EXCEPT ![i] = replay_item(entry, cwd[i], name)]
                /\ todo' = [todo EXCEPT ![i][r] = todo[i][r] \ {name}]
                /\ events' = [events EXCEPT ![i] = events[i] \cup {Event(i, r, "replay")}]
                /\ UNCHANGED <<pc, aborted>>
           ELSE \* _exit(f"Can not copy '{path.name}'.")
                /\ pc' = [pc EXCEPT ![i][r] = exit_pc(i, r)]
                /\ aborted' = [aborted EXCEPT ![i] = aborted[i] \/ exit_aborts(i, r)]
                /\ UNCHANGED <<cwd, todo, events>>
    /\ UNCHANGED <<settings, submission, cache, nranks, regenerate_data, envset, input, run_executable,
                   res_dir, sent, received, existed, evicted, found, preceded>>

\* initialize, line 86: return False, res_dir
initialize_return(i, r) ==
    /\ pc[i][r] = "replay"
    /\ todo[i][r] = {}
    /\ run_executable' = [run_executable EXCEPT ![i][r] = "False"]
    /\ pc' = [pc EXCEPT ![i][r] = "bcast1"]
    /\ UNCHANGED <<settings, submission, cache, nranks, regenerate_data, envset, input, cwd, res_dir,
                   sent, todo, aborted, received, existed, evicted, found, preceded, events>>

\* MPI_COMM.Abort ends the other processes of the group
abort_kills(i, r) ==
    /\ aborted[i]
    /\ pc[i][r] \notin Terminal \cup {"idle"}
    /\ pc' = [pc EXCEPT ![i][r] = "killed"]
    /\ UNCHANGED <<settings, submission, cache, nranks, regenerate_data, envset, input, cwd,
                   run_executable, res_dir, sent, todo, aborted, received, existed, evicted, found,
                   preceded, events>>

\* the pc of a process after line 43: line 45, if run_executable
after_bcast(flag) == IF flag = "True" THEN "call" ELSE "done"

\* run, line 42 without mpi4py: MPI_COMM is not defined, NameError
run_bcast_undefined(i, r) ==
    /\ pc[i][r] = "bcast1"
    /\ nranks[i] = 0
    /\ pc' = [pc EXCEPT ![i][r] = "raised"]
    /\ UNCHANGED <<settings, submission, cache, nranks, regenerate_data, envset, input, cwd,
                   run_executable, res_dir, sent, todo, aborted, received, existed, evicted, found,
                   preceded, events>>

\* run, lines 42-43 on rank 0: broadcast run_executable, then res_dir
run_bcast_root(i, r) ==
    /\ pc[i][r] \in {"bcast1", "bcast2"}
    /\ nranks[i] > 0
    /\ r = 0
    /\ IF pc[i][r] = "bcast1"
       THEN /\ sent' = [sent EXCEPT ![i] = Append(sent[i], run_executable[i][r])]
            /\ pc' = [pc EXCEPT ![i][r] = "bcast2"]
            /\ UNCHANGED received
       ELSE /\ sent' = [sent EXCEPT ![i] = Append(sent[i], res_dir[i][r])]
            /\ pc' = [pc EXCEPT ![i][r] = after_bcast(run_executable[i][r])]
            /\ received' = [received EXCEPT ![i][r] = TRUE]
    /\ UNCHANGED <<settings, submission, cache, nranks, regenerate_data, envset, input, cwd,
                   run_executable, res_dir, todo, aborted, existed, evicted, found, preceded, events>>

\* run, lines 42-43 on another rank: wait for rank 0's object
run_bcast_recv(i, r) ==
    /\ pc[i][r] \in {"bcast1", "bcast2"}
    /\ nranks[i] > 0
    /\ r # 0
    /\ IF pc[i][r] = "bcast1"
       THEN /\ Len(sent[i]) >= 1
            /\ run_executable' = [run_executable EXCEPT
                                    ![i][r] = bcast(run_executable[i][r], sent[i][1])]
            /\ pc' = [pc EXCEPT ![i][r] = "bcast2"]
            /\ UNCHANGED <<res_dir, received>>
       ELSE /\ Len(sent[i]) >= 2
            /\ res_dir' = [res_dir EXCEPT ![i][r] = bcast(res_dir[i][r], sent[i][2])]
            /\ pc' = [pc EXCEPT ![i][r] = after_bcast(run_executable[i][r])]
            /\ received' = [received EXCEPT ![i][r] = TRUE]
            /\ UNCHANGED run_executable
    /\ UNCHANGED <<settings, submission, cache, nranks, regenerate_data, envset, input, cwd, sent,
                   todo, aborted, existed, evicted, found, preceded, events>>

\* run, lines 46-47: subprocess.call([executable_path, ...]) starts the executable,
\* or raises FileNotFoundError
run_call(i, r) ==
    /\ pc[i][r] = "call"
    /\ pc' = [pc EXCEPT ![i][r] = IF resolves(executable_path) THEN "running" ELSE "raised"]
    /\ events' = [events EXCEPT ![i] = events[i] \cup {Event(i, r, "call")}]
    /\ UNCHANGED <<settings, submission, cache, nranks, regenerate_data, envset, input, cwd,
                   run_executable, res_dir, sent, todo, aborted, received, existed, evicted, found,
                   preceded>>

\* the return codes of the real executable that subprocess.call may return
ReturnCodes == {0, 1}

\* the name, in the history, of a subprocess.call that returned rc
returned(rc) == IF rc = 0 THEN "call returned 0" ELSE "call returned non-zero"

\* run, lines 47-49: the executable has written its output and subprocess.call
\* returns its return code, which run() does not assign to anything
run_call_returns(i, r) ==
    /\ pc[i][r] = "running"
    /\ cwd' = [cwd EXCEPT ![i] = after_command(cwd[i], i)]
    /\ pc' = [pc EXCEPT ![i][r] = IF stores_results(nranks[i], r) THEN "store" ELSE "done"]
    /\ \E rc \in ReturnCodes :
          events' = [events EXCEPT ![i] = events[i] \cup {Event(i, r, returned(rc))}]
    /\ UNCHANGED <<settings, submission, cache, nranks, regenerate_data, envset, input,
                   run_executable, res_dir, sent, todo, aborted, received, existed, evicted, found,
                   preceded>>

\* store_results, lines 96-100: os.makedirs(res_dir)
store_results_makedirs(i, r) ==
    /\ pc[i][r] = "store"
    /\ IF makedirs_raises(cache, res_dir[i][r])
       THEN /\ pc' = [pc EXCEPT ![i][r] = "raised"]
            /\ events' = [events EXCEPT ![i] = events[i] \cup {Event(i, r, "FileExistsError")}]
            /\ UNCHANGED cache
       ELSE /\ cache' = [d \in DOMAIN cache \cup {res_dir[i][r]} |->
                            IF d = res_dir[i][r] THEN EmptyTree ELSE cache[d]]
            /\ pc' = [pc EXCEPT ![i][r] = "copy"]
            /\ events' = [events EXCEPT ![i] = events[i] \cup {Event(i, r, "makedirs")}]
    /\ UNCHANGED <<settings, submission, nranks, regenerate_data, envset, input, cwd, run_executable,
                   res_dir, sent, todo, aborted, received, existed, evicted, found, preceded>>

\* store_results, lines 101-103: copy_files(Path('.'), res_dir, ...)
store_results_copy(i, r) ==
    /\ pc[i][r] = "copy"
    /\ LET dir == res_dir[i][r]
           dest == IF dir \in DOMAIN cache THEN cache[dir] ELSE EmptyTree
           new == copy_files(cwd[i], dest, ignore_files, ignore_paths)
       IN  cache' = IF dir \in DOMAIN cache \/ DOMAIN new # {}
                    THEN [d \in DOMAIN cache \cup {dir} |-> IF d = dir THEN new ELSE cache[d]]
                    ELSE cache
    /\ pc' = [pc EXCEPT ![i][r] = "done"]
    /\ events' = [events EXCEPT ![i] = events[i] \cup {Event(i, r, "copy")}]
    /\ UNCHANGED <<settings, submission, nranks, regenerate_data, envset, input, cwd, run_executable,
                   res_dir, sent, todo, aborted, received, existed, evicted, found, preceded>>

(* ------------------------------------------------------------------ *)
(* Initial states and specifications                                   *)
(* ------------------------------------------------------------------ *)
\* the submission script written for a calculation of the mock code
SubmitScript ==
    <<"#!/bin/bash", NL, EXPORT_MOCK, "_LABEL=\"x\"", NL,
      "'/opt/bin/", MOCK_CODE_Q, " < in > out">>

\* working directories as an invocation finds them: input file, submission
\* script and the bookkeeping directory
InputA ==
    [p \in {<<N_in>>, <<SUBMIT_FILE>>, <<AIIDA_DIR, N_c>>} |->
        IF p = <<N_in>> THEN <<"input a">>
        ELSE IF p = <<SUBMIT_FILE>> THEN SubmitScript ELSE <<"calcinfo">>]

InputB == [InputA EXCEPT ![<<N_in>>] = <<"input b">>]

Inputs == {InputA, InputB}

\* the default ignore_files and ignore_paths of _get_mock_code
DefaultIgnoreFiles == <<SUBMIT_FILE>>
DefaultIgnorePaths == <<<<SUBMIT_FILE>>>>

\* what the real executable writes: a file and a file in a subdirectory
DefaultOutputs == {<<N_out>>, <<N_d, N_log>>}

\* the res_dir an earlier session (run 0) archived for the working directory tree
Archived(tree) ==
    copy_files(after_command(tree, 0), EmptyTree, ignore_files, ignore_paths)

\* a data directory holding the res_dir of tree
DataWith(tree, entry) ==
    [d \in {ResDir(DATA_DIR, LABEL, get_hash(tree))} |-> entry]

InitProcesses ==
    /\ nranks = [i \in Invs |-> 0]
    /\ regenerate_data = [i \in Invs |-> FALSE]
    /\ envset = [i \in Invs |-> TRUE]
    /\ input = [i \in Invs |-> EmptyTree]
    /\ cwd = [i \in Invs |-> EmptyTree]
    /\ pc = [i \in Invs |-> [r \in Ranks |-> "idle"]]
    /\ run_executable = [i \in Invs |-> [r \in Ranks |-> "None"]]
    /\ res_dir = [i \in Invs |-> [r \in Ranks |-> NO_DIR]]
    /\ sent = [i \in Invs |-> <<>>]
    /\ todo = [i \in Invs |-> [r \in Ranks |-> {}]]
    /\ aborted = [i \in Invs |-> FALSE]
    /\ received = [i \in Invs |-> [r \in Ranks |-> FALSE]]
    /\ existed = [i \in Invs |-> FALSE]
    /\ evicted = [i \in Invs |-> FALSE]
    /\ found = [i \in Invs |-> "unknown"]
    /\ preceded = [i \in Invs |-> {}]
    /\ events = [i \in Invs |-> {}]
    /\ regenerate_extra = FALSE
    /\ process_cwd = EmptyTree
    /\ workdir = EmptyTree
    /\ job_id = NONE
    /\ submit_pc = "none"
    /\ submit_res_dir = NO_DIR
    /\ submit_todo = {}
    /\ submitted = <<>>
    /\ returns = <<>>

InitSettings ==
    /\ \E f \in FactoryInputs :
          /\ config = f.entry
          /\ executable_path = code_executable_path(f.entry, f.executable_name, f.which)
    /\ ignore_files = DefaultIgnoreFiles
    /\ ignore_paths = DefaultIgnorePaths
    /\ outputs = DefaultOutputs

\* one invocation by a group of up to MaxRanks processes; the data directory is
\* empty, or holds the res_dir of InputA, possibly with an entry that is neither
\* a file nor a directory
Init ==
    /\ InitSettings
    /\ cache \in {EmptyTree,
                  DataWith(InputA, Archived(InputA)),
                  DataWith(InputA, Overwrite(Archived(InputA), [p \in {<<N_e>>} |-> SPECIAL]))}
    /\ InitProcesses

Steps(i, r) ==
    \/ initialize_regenerate(i, r)
    \/ initialize_exists(i, r)
    \/ \E name \in todo[i][r] : initialize_copy(i, r, name)
    \/ initialize_return(i, r)
    \/ abort_kills(i, r)
    \/ run_bcast_undefined(i, r)
    \/ run_bcast_root(i, r)
    \/ run_bcast_recv(i, r)
    \/ run_call(i, r)
    \/ run_call_returns(i, r)
    \/ store_results_makedirs(i, r)
    \/ store_results_copy(i, r)

Next ==
    \/ \E n \in 0..MaxRanks, regen \in BOOLEAN, env \in BOOLEAN, tree \in Inputs :
          Start(1, n, regen, env, tree)
    \/ \E r \in Ranks : Steps(1, r)

Spec == Init /\ [][Next]_vars

\* the steps of an invocation that is a single process (rank 0, or no MPI)
StepsAlone(i) ==
    \/ initialize_regenerate(i, 0)
    \/ initialize_exists(i, 0)
    \/ \E name \in todo[i][0] : initialize_copy(i, 0, name)
    \/ initialize_return(i, 0)
    \/ run_bcast_undefined(i, 0)
    \/ run_bcast_root(i, 0)
    \/ run_call(i, 0)
    \/ run_call_returns(i, 0)
    \/ store_results_makedirs(i, 0)
    \/ store_results_copy(i, 0)

\* invocations one after the other on one data directory, each a single process
\* with or without MPI: invocation i starts when invocation i - 1 has ended
InitSeq ==
    /\ InitSettings
    /\ cache \in {EmptyTree, DataWith(InputA, Archived(InputA))}
    /\ InitProcesses

StartAfter(i) ==
    /\ IF i = 1 THEN TRUE ELSE Ended(i - 1)
    /\ \E n \in {0, 1}, regen \in BOOLEAN, tree \in Inputs : Start(i, n, regen, TRUE, tree)

NextSeq == \E i \in Invs : StartAfter(i) \/ StepsAlone(i)

SpecSeq == InitSeq /\ [][NextSeq]_vars

\* independent invocations (one MPI rank each, with regenerate on or off) that run
\* at the same time on one data directory, empty at first; the configuration
\* holds the path of the real executable
InitRace ==
    /\ InitSettings
    /\ config = REAL_EXE
    /\ cache = EmptyTree
    /\ InitProcesses

\* (the invocations are interchangeable: the first one runs in InputA)
StartRacing(i) ==
    \E regen \in BOOLEAN, tree \in IF i = 1 THEN {InputA} ELSE Inputs :
        Start(i, 1, regen, TRUE, tree)

StepsExecute(i) ==
    \/ initialize_regenerate(i, 0)
    \/ initialize_exists(i, 0)
    \/ \E name \in todo[i][0] : initialize_copy(i, 0, name)
    \/ initialize_return(i, 0)
    \/ run_bcast_root(i, 0)
    \/ run_call(i, 0)
    \/ run_call_returns(i, 0)
    \/ store_results_makedirs(i, 0)
    \/ store_results_copy(i, 0)

NextRace == \E i \in Invs : StartRacing(i) \/ StepsExecute(i)

SpecRace == InitRace /\ [][NextRace]_vars

\* one invocation that runs the real executable and archives, over working
\* directories with nested directories and over several lists of patterns
InputNested ==
    LET more == [p \in {<<N_d, N_in>>, <<N_d, N_e, N_in>>, <<N_d, AIIDA_DIR, N_c>>,
                        <<AIIDA_DIR, N_d, N_c>>} |-> <<"nested">>]
    IN  Overwrite(InputA, more)

CopyInputs == {InputA, InputNested}

OutputChoices ==
    {DefaultOutputs,
     {<<N_out>>, <<N_d, N_out>>, <<N_d, N_e, N_log>>, <<N_d, N_e, N_out>>, <<N_e, N_log>>}}

IgnoreFilesChoices ==
    {DefaultIgnoreFiles, <<<<"o", "*">>>>, <<<<"*", "g">>, <<"?", "?">>>>}

IgnorePathsChoices ==
    {DefaultIgnorePaths, <<<<N_d>>>>, <<<<N_e>>>>, <<<<N_d, N_e>>>>, <<<<N_d, <<"*">>>>>>,
     <<<<N_out>>>>, <<<<<<"*">>, N_log>>>>, <<<<N_log>>, <<N_d, N_in>>>>}

InitCopy ==
    /\ config = REAL_EXE
    /\ executable_path = code_executable_path(REAL_EXE, "", "")
    /\ ignore_files \in IgnoreFilesChoices
    /\ ignore_paths \in IgnorePathsChoices
    /\ outputs \in OutputChoices
    /\ cache = EmptyTree
    /\ InitProcesses

StartCopy == \E tree \in CopyInputs : Start(1, 1, FALSE, TRUE, tree)

NextCopy ==
    \/ StartCopy
    \/ initialize_regenerate(1, 0)
    \/ initialize_exists(1, 0)
    \/ run_bcast_root(1, 0)
    \/ run_call(1, 0)
    \/ run_call_returns(1, 0)
    \/ store_results_makedirs(1, 0)
    \/ store_results_copy(1, 0)

SpecCopy == InitCopy /\ [][NextCopy]_vars

N_old == <<"o","l","d">>

\* working directories to replay into: InputA, and InputA with a directory d that
\* holds files, an output file of an earlier run, and a file log of its own
InputStale ==
    Overwrite(InputA, [p \in {<<N_d, N_old>>, <<N_d, N_log>>, <<N_out>>, <<N_log>>} |->
                          IF p = <<N_log>> THEN <<"own log">> ELSE <<"stale">>])

ReplayInputs == {InputA, InputStale}

\* res_dirs to replay from: the archive of InputA; the same with a submission
\* script and a nested directory; one whose entry in is a directory; one whose
\* entry d is a file
ReplayEntries ==
    {Archived(InputA),
     Overwrite(Archived(InputA),
               [p \in {<<SUBMIT_FILE>>, <<N_d, N_e, N_c>>} |-> <<"cached">>]),
     Moved(Archived(InputA), <<N_in>>, <<N_in, N_c>>),
     Moved(Archived(InputA), <<N_d, N_log>>, <<N_d>>)}

\* invocations one after the other, each a single process with or without MPI
\* and with regenerate off, on a data directory that holds a res_dir for one of
\* the working directories
InitReplay ==
    /\ InitSettings
    /\ \E tree \in ReplayInputs, entry \in ReplayEntries : cache = DataWith(tree, entry)
    /\ InitProcesses

StartReplay(i) ==
    /\ IF i = 1 THEN TRUE ELSE Ended(i - 1)
    /\ \E n \in {0, 1}, tree \in ReplayInputs : Start(i, n, FALSE, TRUE, tree)

NextReplay == \E i \in Invs : StartReplay(i) \/ StepsAlone(i)

SpecReplay == InitReplay /\ [][NextReplay]_vars

\* the parts of a submission script that vary between two calculations: the lines
\* exporting the AIIDA_MOCK variables, the quoted absolute path of the launcher
\* up to its file name, and the command line after the launcher
ExportChoices ==
    {<<>>,
     <<EXPORT_MOCK, "_LABEL=\"x\"", NL>>,
     <<EXPORT_MOCK, "_LABEL=\"y\"", NL, EXPORT_MOCK, "_DATA_DIR=\"/data\"", NL>>}

LauncherChoices == {"'/opt/bin/", "'/home/user/venv/bin/"}

ArgChoices == {<<" < in > out">>, <<" -v", " < in > out">>}

ScriptParts == [exports : ExportChoices, launcher : LauncherChoices, args : ArgChoices]

ScriptOf(sp) == <<"#!/bin/bash", NL>> \o sp.exports \o <<sp.launcher, MOCK_CODE_Q>> \o sp.args

WithScript(tree, script) == Overwrite(tree, [p \in {<<SUBMIT_FILE>>} |-> script])

\* working directories to fingerprint: InputA with another submission script,
\* with other files below .aiida (directly, and one directory further down), with
\* the input file in a subdirectory, and with another input
ScriptInputs == {WithScript(InputA, ScriptOf(sp)) : sp \in ScriptParts}

BookkeepingInputs ==
    {Restrict(InputA, DOMAIN InputA \ {<<AIIDA_DIR, N_c>>}),
     WithFile(InputA, <<AIIDA_DIR, N_c>>, <<"calcinfo 2">>),
     WithFile(InputA, <<AIIDA_DIR, N_e, N_c>>, <<"job">>),
     WithFile(InputA, <<AIIDA_DIR, N_e, N_c>>, <<"job 2">>)}

LayoutInputs ==
    {Moved(InputA, <<N_in>>, <<N_d, N_in>>), Moved(InputA, <<N_in>>, <<N_e, N_in>>)}

HashInputs == ScriptInputs \cup BookkeepingInputs \cup LayoutInputs \cup {InputB}

\* invocations that compute the res_dir of their working directory (lines 62-72)
InitHash ==
    /\ config = REAL_EXE
    /\ executable_path = code_executable_path(REAL_EXE, "", "")
    /\ ignore_files = DefaultIgnoreFiles
    /\ ignore_paths = DefaultIgnorePaths
    /\ outputs = DefaultOutputs
    /\ cache = EmptyTree
    /\ InitProcesses

StartHash(i) == \E tree \in HashInputs : Start(i, 1, FALSE, TRUE, tree)

NextHash == \E i \in Invs : StartHash(i) \/ initialize_regenerate(i, 0)

SpecHash == InitHash /\ [][NextHash]_vars

(* ------------------------------------------------------------------ *)
(* mock_submit_calculation (_fixtures.py) and its specification        *)
(* ------------------------------------------------------------------ *)
\* the job id of a calculation that was replayed, line 298
NOT_SUBMITTED == "-1"

\* the job id the scheduler returns for its n-th submission
JobId(n) == ToString(n)

\* the submission script with the launcher of the mock executable replaced by the
\* path of the real executable
RECURSIVE ReplaceLauncher(_, _)
ReplaceLauncher(bytes, exe) ==
    IF bytes = <<>> THEN <<>>
    ELSE IF Head(bytes) = MOCK_CODE_Q THEN <<exe, "'">> \o ReplaceLauncher(Tail(bytes), exe)
    ELSE IF Len(bytes) > 1 /\ bytes[2] = MOCK_CODE_Q
    THEN <<"'">> \o ReplaceLauncher(Tail(bytes), exe)
    ELSE <<Head(bytes)>> \o ReplaceLauncher(Tail(bytes), exe)

\* replace_submit_file(executable_path=..., working_directory=...), line 248
replace_submit_file(exe, working_directory) ==
    IF <<SUBMIT_FILE>> \in DOMAIN working_directory
    THEN [working_directory EXCEPT
             ![<<SUBMIT_FILE>>] = ReplaceLauncher(working_directory[<<SUBMIT_FILE>>], exe)]
    ELSE working_directory

\* already_submitted never returning the job id that is set
already_submitted_never(id) == FALSE

\* line 261: job_id is not None
already_submitted(id) == id # NONE

\* how a call of mock_submit_calculation ended
Outcome(hit, id, submits, how, result) ==
    [found |-> hit, job_id |-> id, submits |-> submits, how |-> how, result |-> result]

\* the test stores the code with its extras (lines 190-197) and creates the
\* calculation, whose working directory is uploaded
prepare_calculation ==
    /\ submit_pc = "none"
    /\ \E regen \in BOOLEAN, tree \in Inputs, dir \in Inputs :
          /\ regenerate_extra' = regen
          /\ workdir' = tree
          /\ process_cwd' = dir
    /\ submit_pc' = "idle"
    /\ UNCHANGED <<settings, invocations, cache, job_id, submit_res_dir, submit_todo,
                   submitted, returns>>

\* lines 226-239: the extras, the digest of the current directory, the res_dir
\* and its removal when the data is regenerated
mock_submit_calculation ==
    /\ submit_pc = "idle"
    /\ Len(returns) < MaxCalls
    /\ LET dir == ResDir(DATA_DIR, LABEL, get_hash(process_cwd))
           remove == regenerates(regenerate_extra, dir \in DOMAIN cache)
       IN  /\ submit_res_dir' = dir
           /\ cache' = IF remove THEN rmtree(cache, dir) ELSE cache
    /\ submit_pc' = "check"
    /\ UNCHANGED <<settings, invocations, regenerate_extra, process_cwd, workdir, job_id,
                   submit_todo, submitted, returns>>

\* lines 242-248 and 286-287: res_dir.exists()
mock_submit_exists ==
    /\ submit_pc = "check"
    /\ IF submit_res_dir \in DOMAIN cache
       THEN /\ submit_todo' = {p[1] : p \in DOMAIN cache[submit_res_dir]}
            /\ submit_pc' = "replay"
            /\ UNCHANGED <<workdir, returns>>
       ELSE IF executable_path = ""
       THEN \* sys.exit("No existing output, and no executable specified.")
            /\ returns' = Append(returns, Outcome(FALSE, job_id, 0, "exited", NONE))
            /\ submit_pc' = "idle"
            /\ UNCHANGED <<workdir, submit_todo>>
       ELSE /\ workdir' = replace_submit_file(executable_path, workdir)
            /\ submit_pc' = "job_id"
            /\ UNCHANGED <<submit_todo, returns>>
    /\ UNCHANGED <<settings, invocations, cache, regenerate_extra, process_cwd, job_id,
                   submit_res_dir, submitted>>

\* lines 252-262: the job id that is already set is returned
mock_submit_job_id ==
    /\ submit_pc = "job_id"
    /\ IF already_submitted(job_id)
       THEN /\ returns' = Append(returns, Outcome(FALSE, job_id, 0, "returned", job_id))
            /\ submit_pc' = "idle"
       ELSE /\ submit_pc' = "submit"
            /\ UNCHANGED returns
    /\ UNCHANGED <<settings, invocations, cache, regenerate_extra, process_cwd, workdir,
                   job_id, submit_res_dir, submit_todo, submitted>>

\* lines 264-272: the script is submitted and the job id set on the calculation
mock_submit_from_script ==
    /\ submit_pc = "submit"
    /\ LET id == JobId(Len(submitted) + 1)
       IN  /\ submitted' = Append(submitted, id)
           /\ returns' = Append(returns, Outcome(FALSE, job_id, 1, "returned", id))
           /\ job_id' = id
    /\ submit_pc' = "idle"
    /\ UNCHANGED <<settings, invocations, cache, regenerate_extra, process_cwd, workdir,
                   submit_res_dir, submit_todo>>

\* lines 288-295: one round of the loop over res_dir.iterdir(), which copies into
\* the current directory
mock_submit_copy(name) ==
    /\ submit_pc = "replay"
    /\ name \in submit_todo
    /\ LET entry == IF submit_res_dir \in DOMAIN cache THEN cache[submit_res_dir]
                    ELSE EmptyTree
       IN  IF replay_raises(entry, process_cwd, name)
           THEN /\ returns' = Append(returns, Outcome(TRUE, job_id, 0, "raised", NONE))
                /\ submit_pc' = "idle"
                /\ submit_todo' = {}
                /\ UNCHANGED process_cwd
           ELSE IF is_dir(entry, <<name>>) \/ is_file(entry, <<name>>)
           THEN /\ process_cwd' = replay_item(entry, process_cwd, name)
                /\ submit_todo' = submit_todo \ {name}
                /\ UNCHANGED <<submit_pc, returns>>
           ELSE \* sys.exit(f"Can not copy '{path.name}'.")
                /\ returns' = Append(returns, Outcome(TRUE, job_id, 0, "exited", NONE))
                /\ submit_pc' = "idle"
                /\ submit_todo' = {}
                /\ UNCHANGED process_cwd
    /\ UNCHANGED <<settings, invocations, cache, regenerate_extra, workdir, job_id,
                   submit_res_dir, submitted>>

\* line 298: return -1
mock_submit_return ==
    /\ submit_pc = "replay"
    /\ submit_todo = {}
    /\ returns' = Append(returns, Outcome(TRUE, job_id, 0, "returned", NOT_SUBMITTED))
    /\ submit_pc' = "idle"
    /\ UNCHANGED <<settings, invocations, cache, regenerate_extra, process_cwd, workdir,
                   job_id, submit_res_dir, submit_todo, submitted>>

\* between two calls, a run of the mock executable in a directory of the same
\* digest archives its res_dir (store_results)
other_run_archives ==
    /\ submit_pc = "idle"
    /\ LET dir == ResDir(DATA_DIR, LABEL, get_hash(process_cwd))
       IN  /\ ~makedirs_raises(cache, dir)
           /\ cache' = Overwrite(cache, DataWith(process_cwd, Archived(process_cwd)))
    /\ UNCHANGED <<settings, invocations, submission>>

\* between two calls, a regenerating run of the mock executable in a directory of
\* the same digest removes its res_dir (initialize, line 72)
other_run_regenerates ==
    /\ submit_pc = "idle"
    /\ LET dir == ResDir(DATA_DIR, LABEL, get_hash(process_cwd))
       IN  /\ regenerates(TRUE, dir \in DOMAIN cache)
           /\ cache' = rmtree(cache, dir)
    /\ UNCHANGED <<settings, invocations, submission>>

\* the calls of mock_submit_calculation for one calculation, one after the other;
\* the data directory is empty, or holds the res_dir of InputA, possibly with an
\* entry that is neither a file nor a directory, or with a directory in where the
\* current directory has a file
InitSubmit ==
    /\ InitSettings
    /\ cache \in {EmptyTree,
                  DataWith(InputA, Archived(InputA)),
                  DataWith(InputA, Overwrite(Archived(InputA), [p \in {<<N_e>>} |-> SPECIAL])),
                  DataWith(InputA, Moved(Archived(InputA), <<N_in>>, <<N_in, N_c>>))}
    /\ InitProcesses

NextSubmit ==
    \/ prepare_calculation
    \/ mock_submit_calculation
    \/ mock_submit_exists
    \/ mock_submit_job_id
    \/ mock_submit_from_script
    \/ \E name \in submit_todo : mock_submit_copy(name)
    \/ mock_submit_return
    \/ other_run_archives
    \/ other_run_regenerates

SpecSubmit == InitSubmit /\ [][NextSubmit]_vars

(* ------------------------------------------------------------------ *)
(* Properties of one invocation by a process group (Spec)              *)
(* ------------------------------------------------------------------ *)
Did(i, what) == {e \in events[i] : e.what = what}

Archiving == {"makedirs", "FileExistsError", "copy"}

\* C1: the decision and the cache path are computed by rank 0 alone, every process
\* holds rank 0's run_executable and res_dir once its broadcasts have returned, and
\* when rank 0 decided to replay (run_executable = False) no process of the group
\* calls the real executable.
C1_GroupAgreement ==
    \A i \in Invs :
        /\ \A r \in Ranks \ {0} : pc[i][r] \notin {"initialize", "check", "replay"}
        /\ \A r \in Ranks :
              received[i][r] =>
                  /\ run_executable[i][r] = run_executable[i][0]
                  /\ res_dir[i][r] = res_dir[i][0]
        /\ run_executable[i][0] = "False" => Did(i, "call") = {}

\* a group of two or more in which rank 0 decided to replay and every rank has
\* returned from run()
C1_Witness ==
    \E i \in Invs :
        /\ nranks[i] >= 2
        /\ run_executable[i][0] = "False"
        /\ \A r \in 0..(nranks[i] - 1) : received[i][r] /\ pc[i][r] = "done"

\* a follower that waits in bcast for an object rank 0 will never send, in a group
\* nobody aborted
BlockedForever(i, r) ==
    /\ r # 0
    /\ pc[i][r] \in {"bcast1", "bcast2"}
    /\ pc[i][0] \in Terminal
    /\ ~received[i][0]
    /\ ~aborted[i]

\* C2: however rank 0 ends before it has broadcast the decision, the group is
\* aborted: no follower is left waiting in the broadcast for ever.
C2_LeaderFailureAbortsGroup ==
    \A i \in Invs : \A r \in Ranks : ~BlockedForever(i, r)

C4_OnlyLeaderArchivesOnce ==
    \A i \in Invs :
        /\ \A e \in events[i] : e.what \in Archiving => e.rank = 0
        /\ Cardinality(Did(i, "makedirs") \cup Did(i, "FileExistsError")) <= 1
        /\ Cardinality(Did(i, "copy")) <= 1
        /\ \A r \in Ranks \ {0} : pc[i][r] \notin {"store", "copy"}

\* every rank of a group of two or more has run the executable and returned, and
\* rank 0 has archived
C4_Witness ==
    \E i \in Invs :
        /\ nranks[i] >= 2
        /\ \A r \in 0..(nranks[i] - 1) : pc[i][r] = "done" /\ run_executable[i][r] = "True"
        /\ Did(i, "copy") # {}
        /\ res_dir[i][0] \in DOMAIN cache

\* the configuration names no real executable for the label, and none was found
NoExecutableConfigured == config \in {NO_LABEL, ""} /\ ~resolves(executable_path)

\* C7: when the res_dir does not exist and no real executable is configured for the
\* label, the invocation ends in the fatal error of initialize: no process calls a
\* command and no res_dir is created.
C7_MissWithoutExecutableIsFatal ==
    \A i \in Invs :
        found[i] = "miss" /\ NoExecutableConfigured =>
            /\ \A r \in Ranks : pc[i][r] \in Terminal \ {"done"} \/ aborted[i]
            /\ run_executable[i][0] # "True"
            /\ Did(i, "call") = {}
            /\ Did(i, "makedirs") = {}

(* ------------------------------------------------------------------ *)
(* Properties of invocations one after the other (SpecSeq)             *)
(* ------------------------------------------------------------------ *)
\* run() has returned on rank 0 after the executable ran and store_results copied
CompletedArchive(i) ==
    pc[i][0] = "done" /\ run_executable[i][0] = "True" /\ Did(i, "copy") # {}

\* no invocation between i and j removed the res_dir of i
NotEvictedBetween(i, j) ==
    \A k \in Invs \ {i, j} :
        i \in preceded[k] /\ k \in preceded[j] /\ res_dir[k][0] = res_dir[i][0]
            => ~evicted[k]

\* no invocation started after i had ended
Latest(i) == \A k \in Invs \ {i} : i \notin preceded[k]

\* C5: once invocation i has run the executable and archived, a later invocation j
\* with regenerate off that starts from the same working directory (same label and
\* data directory, the res_dir of i not removed in between) finds the res_dir and
\* never calls the real executable, and when its replay is over every output file
\* of the real run is in its working directory with the bytes the run of i wrote.
C5_SecondInvocationReplays ==
    \A i \in Invs : \A j \in Invs \ {i} :
        (/\ i \in preceded[j]
         /\ CompletedArchive(i)
         /\ input[j] = input[i]
         /\ ~regenerate_data[j]
         /\ NotEvictedBetween(i, j))
        => /\ found[j] # "miss"
           /\ run_executable[j][0] # "True"
           /\ Did(j, "call") = {}
           /\ run_executable[j][0] = "False" =>
                 \A p \in outputs : p \in DOMAIN cwd[j] /\ cwd[j][p] = cwd[i][p]
                                    /\ cwd[j][p] = RunOutput(i)

\* invocation j has replayed what invocation i archived
C5_Witness ==
    \E i \in Invs : \E j \in Invs \ {i} :
        /\ i \in preceded[j]
        /\ CompletedArchive(i)
        /\ input[j] = input[i]
        /\ ~regenerate_data[j]
        /\ run_executable[j][0] = "False"
        /\ pc[j][0] = "done"

\* C6: an invocation with regenerate on that finds its res_dir present removes it
\* before the test of line 74, so it never decides to replay and copies nothing
\* into the working directory; with an executable path set its decision is to
\* execute, and when run() has returned the res_dir exists again and holds only
\* files of this run's working directory, the output files with this run's bytes.
C6_RegenerateEvictsAndRecreates ==
    \A i \in Invs :
        regenerate_data[i] /\ existed[i] =>
            /\ evicted[i]
            /\ found[i] # "hit"
            /\ run_executable[i][0] # "False"
            /\ Did(i, "replay") = {}
            /\ found[i] = "miss" /\ executable_path # "" => run_executable[i][0] = "True"
            /\ pc[i][0] = "done" /\ Latest(i) =>
                  /\ res_dir[i][0] \in DOMAIN cache
                  /\ \A p \in DOMAIN cache[res_dir[i][0]] :
                        p \in DOMAIN cwd[i] /\ cache[res_dir[i][0]][p] = cwd[i][p]
                  /\ \A p \in outputs :
                        /\ p \in DOMAIN cache[res_dir[i][0]]
                        /\ cache[res_dir[i][0]][p] = RunOutput(i)

\* a regenerating invocation has removed a res_dir, run the executable and
\* archived again
C6_Witness ==
    \E i \in Invs :
        /\ regenerate_data[i] /\ existed[i] /\ evicted[i]
        /\ pc[i][0] = "done"
        /\ res_dir[i][0] \in DOMAIN cache
        /\ \A p \in outputs : cache[res_dir[i][0]][p] = RunOutput(i)

(* ------------------------------------------------------------------ *)
(* Properties of the archived tree (SpecCopy)                          *)
(* ------------------------------------------------------------------ *)
\* a path pattern matches the path p itself or a directory above it
HitByPathPattern(p, pattern) ==
    \E m \in 1..Len(p) : MatchFromRight(SubSeq(p, 1, m), pattern)

HitByFilePattern(p) ==
    \E k \in 1..Len(ignore_files) : fnmatch(p[Len(p)], ignore_files[k])

Excluded(p) ==
    \/ HitByFilePattern(p)
    \/ \E k \in 1..Len(ignore_paths) : HitByPathPattern(p, ignore_paths[k])

UnderBookkeeping(p) == Len(p) > 1 /\ p[1] = AIIDA_DIR

Archive(i) == cache[res_dir[i][0]]

\* C8: after store_results the res_dir holds no file whose name matches a pattern
\* of ignore_files, no file that a pattern of ignore_paths matches, and no file
\* below a directory that a pattern of ignore_paths matches.
C8_ExcludedFilesNotArchived ==
    \A i \in Invs :
        CompletedArchive(i) /\ Latest(i) =>
            \A p \in DOMAIN Archive(i) : ~Excluded(p)

\* the working directory holds, after the real run, a file excluded by its name, a
\* file excluded by its path and a file below an excluded directory, and the
\* archive holds other files
C8_Witness ==
    \E i \in Invs :
        /\ CompletedArchive(i)
        /\ DOMAIN Archive(i) # {}
        /\ \E p \in DOMAIN cwd[i] : HitByFilePattern(p) /\ ~UnderBookkeeping(p)
        /\ \E p \in DOMAIN cwd[i] : \E k \in 1..Len(ignore_paths) :
              MatchFromRight(p, ignore_paths[k]) /\ ~HitByFilePattern(p)
        /\ \E p \in DOMAIN cwd[i] : \E k \in 1..Len(ignore_paths) : \E m \in 1..(Len(p) - 1) :
              /\ MatchFromRight(SubSeq(p, 1, m), ignore_paths[k])
              /\ ~MatchFromRight(p, ignore_paths[k])
              /\ ~HitByFilePattern(p)

\* C9: after store_results the res_dir holds exactly the files of the working
\* directory that are neither excluded by the patterns nor below the bookkeeping
\* directory .aiida, each at its relative path and with its bytes.
C9_ArchiveIsExactSnapshot ==
    \A i \in Invs :
        CompletedArchive(i) /\ Latest(i) =>
            /\ DOMAIN Archive(i) = {p \in DOMAIN cwd[i] : ~Excluded(p) /\ ~UnderBookkeeping(p)}
            /\ \A p \in DOMAIN Archive(i) : Archive(i)[p] = cwd[i][p]

\* an archive that holds a file of a subdirectory, made from a working directory
\* with files excluded by the patterns and files below .aiida
C9_Witness ==
    \E i \in Invs :
        /\ CompletedArchive(i)
        /\ \E p \in DOMAIN Archive(i) : Len(p) > 1
        /\ \E p \in DOMAIN cwd[i] : Excluded(p) /\ ~UnderBookkeeping(p)
        /\ \E p \in DOMAIN cwd[i] : UnderBookkeeping(p) /\ ~Excluded(p)

(* ------------------------------------------------------------------ *)
(* Properties of invocations at the same time (SpecRace)               *)
(* ------------------------------------------------------------------ *)
\* invocation i found no res_dir, ran the executable and called os.makedirs
Raced(i) ==
    /\ found[i] = "miss"
    /\ run_executable[i][0] = "True"
    /\ Did(i, "makedirs") \cup Did(i, "FileExistsError") # {}

\* C10: as long as no invocation removes a res_dir (regenerate), of the independent
\* invocations that missed the same res_dir and ran the real executable, exactly
\* one creates the res_dir; os.makedirs raises in each other one, which ends there
\* and copies nothing into the res_dir.
C10_OneRacerCreatesEntry ==
    (\A k \in Invs : ~evicted[k]) =>
        \A i \in Invs :
            Raced(i) =>
                LET racers == {k \in Invs : Raced(k) /\ res_dir[k][0] = res_dir[i][0]}
                    winners == {k \in racers : Did(k, "makedirs") # {}}
                IN  /\ Cardinality(winners) = 1
                    /\ \A k \in racers \ winners :
                          /\ pc[k][0] = "raised"
                          /\ Did(k, "copy") = {}
                          /\ \A p \in DOMAIN cache[res_dir[i][0]] :
                                cache[res_dir[i][0]][p] # RunOutput(k)

\* two invocations missed the same res_dir and ran the executable; one archived,
\* os.makedirs raised in the other
C10_Witness ==
    \E i \in Invs : \E k \in Invs \ {i} :
        /\ Raced(i) /\ Raced(k)
        /\ res_dir[i][0] = res_dir[k][0]
        /\ Did(i, "copy") # {}
        /\ Did(k, "FileExistsError") # {}

(* ------------------------------------------------------------------ *)
(* The data directory over a sequence of invocations (SpecSeq)         *)
(* ------------------------------------------------------------------ *)
\* an invocation has created the res_dir d and has not yet returned from copy_files
BeingWritten(d) == \E i \in Invs : pc[i][0] = "copy" /\ res_dir[i][0] = d

\* the step is the shutil.rmtree of res_dir d by an invocation asked to regenerate
EvictionOf(d) ==
    \E i \in Invs :
        /\ regenerate_data[i]
        /\ pc[i][0] = "initialize" /\ pc'[i][0] = "check"
        /\ res_dir'[i][0] = d
        /\ evicted'[i]

\* C11: over invocations one after the other, a res_dir that has been written in
\* full keeps its contents in every step, except the step in which an invocation
\* asked to regenerate removes the whole res_dir; and no step of a replay changes
\* the data directory.
C11_EntryChangesOnlyByEviction ==
    [][/\ \A d \in DOMAIN cache :
             ~BeingWritten(d) =>
                 \/ d \in DOMAIN cache' /\ cache'[d] = cache[d]
                 \/ d \notin DOMAIN cache' /\ EvictionOf(d)
       /\ \A i \in Invs :
             pc[i][0] = "replay" /\ (cwd'[i] # cwd[i] \/ pc'[i][0] # "replay") => cache' = cache
      ]_vars

\* an invocation removed a res_dir and wrote it anew, and a later invocation has
\* replayed from it: the res_dir holds what the regenerating invocation wrote
C11_Witness ==
    \E i \in Invs : \E j \in Invs \ {i} :
        /\ evicted[i] /\ CompletedArchive(i)
        /\ i \in preceded[j]
        /\ res_dir[j][0] = res_dir[i][0]
        /\ Did(j, "replay") # {} /\ pc[j][0] = "done"
        /\ res_dir[i][0] \in DOMAIN cache
        /\ \A p \in outputs : cache[res_dir[i][0]][p] = RunOutput(i)

(* ------------------------------------------------------------------ *)
(* Replay while another invocation archives (SpecRace)                 *)
(* ------------------------------------------------------------------ *)
\* C12: an invocation that found its res_dir (line 74) and copies it into the
\* working directory never does so while another invocation is between the
\* os.makedirs and the end of the copy_files that write this res_dir: the res_dir
\* it replays holds the complete archive.
C12_ReplayOnlyFromCompleteEntry ==
    \A j \in Invs :
        pc[j][0] = "replay" /\ found[j] = "hit" => ~BeingWritten(res_dir[j][0])

(* ------------------------------------------------------------------ *)
(* The outcome of an invocation that runs the executable (Spec)        *)
(* ------------------------------------------------------------------ *)
\* what rank r of invocation i did
DidBy(i, r, what) == {e \in Did(i, what) : e.rank = r}

\* the process has ended with exit code 0: run() returned
ExitsZero(i, r) == pc[i][r] = "done"

\* C13: a process whose real executable returned a non-zero code does not end with
\* exit code 0, whether or not store_results succeeded, and neither does a process
\* whose store_results failed.
C13_FailureIsReported ==
    \A i \in Invs : \A r \in Ranks :
        /\ DidBy(i, r, returned(1)) # {} => ~ExitsZero(i, r)
        /\ DidBy(i, r, "FileExistsError") # {} => ~ExitsZero(i, r)

(* ------------------------------------------------------------------ *)
(* The fingerprint of a working directory (SpecHash)                   *)
(* ------------------------------------------------------------------ *)
\* invocation i has computed its res_dir
Hashed(i) == pc[i][0] = "check"

\* label and data directory are the same for all: the res_dirs of two invocations
\* are equal exactly when their digests are
SameDigest(i, j) == res_dir[i][0] = res_dir[j][0]

\* the two trees hold the same files but for their submission scripts, which are
\* ScriptOf(s1) and ScriptOf(s2)
SameButScripts(t1, t2, s1, s2) ==
    /\ t1 = WithScript(t2, ScriptOf(s1))
    /\ t2 = WithScript(t1, ScriptOf(s2))

\* C14: two working directories that differ only in the export lines of the
\* AIIDA_MOCK variables and in the absolute path of the launcher in their
\* submission scripts have the same digest; two that differ in the command line
\* after the launcher have different digests.
C14_DigestIgnoresMockLinesOnly ==
    \A i \in Invs : \A j \in Invs \ {i} :
        Hashed(i) /\ Hashed(j) =>
            \A s1 \in ScriptParts : \A s2 \in ScriptParts :
                SameButScripts(input[i], input[j], s1, s2) =>
                    (SameDigest(i, j) <=> s1.args = s2.args)

\* two invocations have the same res_dir for submission scripts that differ both
\* in the export lines and in the path of the launcher
C14_Witness ==
    \E i \in Invs : \E j \in Invs \ {i} :
        /\ Hashed(i) /\ Hashed(j)
        /\ SameDigest(i, j)
        /\ \E s1 \in ScriptParts : \E s2 \in ScriptParts :
              /\ SameButScripts(input[i], input[j], s1, s2)
              /\ s1.exports # s2.exports
              /\ s1.launcher # s2.launcher
              /\ s1.exports # <<>> /\ s2.exports # <<>>

\* the files of the tree that are not below the top-level directory .aiida
Outside(tree) == Restrict(tree, {p \in DOMAIN tree : ~UnderBookkeeping(p)})

\* the two trees hold the same paths outside .aiida and differ there in the bytes
\* of a file other than the submission script
DifferOutside(t1, t2) ==
    /\ DOMAIN Outside(t1) = DOMAIN Outside(t2)
    /\ \E p \in DOMAIN Outside(t1) : p[Len(p)] # SUBMIT_FILE /\ t1[p] # t2[p]

\* C15: the digest does not depend on the files below .aiida, at whatever depth
\* they lie: two working directories with the same files outside .aiida have the
\* same digest, and two that differ in the bytes of a file outside it do not.
C15_DigestIgnoresBookkeeping ==
    \A i \in Invs : \A j \in Invs \ {i} :
        Hashed(i) /\ Hashed(j) =>
            /\ Outside(input[i]) = Outside(input[j]) => SameDigest(i, j)
            /\ DifferOutside(input[i], input[j]) => ~SameDigest(i, j)

\* the bytes of a relative path: its parts joined by '/'
RECURSIVE RelativePathBytes(_)
RelativePathBytes(p) ==
    IF Len(p) = 1 THEN p[1] ELSE p[1] \o <<"/">> \o RelativePathBytes(Tail(p))

\* the bytes get_hash would feed if it fed each hashed file's relative path and
\* then its content
RECURSIVE RelativePathUpdates(_, _)
RelativePathUpdates(tree, seq) ==
    IF seq = <<>> THEN <<>>
    ELSE LET path == Head(seq)
             bytes == IF path[Len(path)] = SUBMIT_FILE
                      THEN strip_submit_content(tree[path]) ELSE tree[path]
         IN  (IF is_file(tree, path) /\ ~MatchFromRight(path, <<AIIDA_DIR, <<"*", "*">>>>)
              THEN RelativePathBytes(path) \o bytes
              ELSE <<>>) \o RelativePathUpdates(tree, Tail(seq))

\* C16: what get_hash feeds to md5sum is, for the hashed files in the order of
\* their sorted relative paths, the relative path and then the content of each;
\* hence a working directory and the same one with a file moved to another
\* relative path do not have the same digest.
C16_FeedsRelativePathThenContent ==
    \A i \in Invs :
        Hashed(i) =>
            /\ res_dir[i][0] = ResDir(DATA_DIR, LABEL,
                                      RelativePathUpdates(input[i], sorted(AllPaths(input[i]))))
            /\ \A j \in Invs \ {i} :
                  (/\ Hashed(j)
                   /\ \E from \in DOMAIN input[i] : \E to \in DOMAIN input[j] :
                         from # to /\ to \notin DOMAIN input[i]
                         /\ input[j] = Moved(input[i], from, to))
                  => ~SameDigest(i, j)

(* ------------------------------------------------------------------ *)
(* The working directory after a replay (SpecReplay)                   *)
(* ------------------------------------------------------------------ *)
\* initialize has returned False: the loop over res_dir.iterdir() is over
Replayed(i) == run_executable[i][0] = "False"

\* the names of the top-level entries of a tree
TopLevel(tree) == {p[1] : p \in DOMAIN tree}

\* C17: after a completed replay the working directory holds, under the names of
\* the res_dir's top-level entries, exactly the files of the res_dir with their
\* bytes (a directory is replaced whole, whatever the patterns of ignore_files and
\* ignore_paths), and under every other name what it held when run() started.
C17_ReplayRestoresEntryWholesale ==
    \A i \in Invs :
        Replayed(i) =>
            LET entry == cache[res_dir[i][0]]
                names == TopLevel(entry)
            IN  /\ \A p \in DOMAIN entry : p \in DOMAIN cwd[i] /\ cwd[i][p] = entry[p]
                /\ \A p \in DOMAIN cwd[i] : p[1] \in names => p \in DOMAIN entry
                /\ \A p \in DOMAIN input[i] :
                      p[1] \notin names => p \in DOMAIN cwd[i] /\ cwd[i][p] = input[i][p]
                /\ \A p \in DOMAIN cwd[i] : p[1] \notin names => p \in DOMAIN input[i]

\* a replay has replaced the directory d, of which a file is gone, has written
\* the cached submission script over the one of the working directory although
\* the patterns exclude it, and has left the file log in place
C17_Witness ==
    \E i \in Invs :
        /\ Replayed(i) /\ pc[i][0] = "done"
        /\ <<N_d, N_old>> \in DOMAIN input[i] /\ <<N_d, N_old>> \notin DOMAIN cwd[i]
        /\ <<N_d, N_e, N_c>> \in DOMAIN cwd[i]
        /\ ignored_file(SUBMIT_FILE, ignore_files)
        /\ cwd[i][<<SUBMIT_FILE>>] = <<"cached">>
        /\ <<N_log>> \in DOMAIN cwd[i] /\ cwd[i][<<N_log>>] = input[i][<<N_log>>]

(* ------------------------------------------------------------------ *)
(* Directories named .aiida in the archived tree (SpecCopy)            *)
(* ------------------------------------------------------------------ *)
\* the path lies below a directory named .aiida, at whatever depth
BelowAnyBookkeeping(p) == \E k \in 1..(Len(p) - 1) : p[k] = AIIDA_DIR

\* C18: whatever the patterns of ignore_files and ignore_paths, after copy_files
\* the res_dir holds no file that lies below a directory named .aiida, wherever
\* in the working directory that directory is.
C18_NothingBelowBookkeepingCopied ==
    \A i \in Invs :
        CompletedArchive(i) /\ Latest(i) =>
            \A p \in DOMAIN Archive(i) : ~BelowAnyBookkeeping(p)

(* ------------------------------------------------------------------ *)
(* The group on the execute path, and run() without mpi4py (Spec)      *)
(* ------------------------------------------------------------------ *)
\* rank 0 has entered the archival: os.makedirs(res_dir) has been called
ArchivalStarted(i) == Did(i, "makedirs") \cup Did(i, "FileExistsError") # {}

\* the real executable of rank r is still to be called, or has not returned
CommandPending(i, r) == pc[i][r] \in {"bcast1", "bcast2", "call", "running"}

\* C19: when rank 0 starts to archive, the real executable called by every rank
\* of the group has returned: no rank is still running it, or still to call it,
\* once os.makedirs(res_dir) has been called.
C19_ArchivesAfterEveryCommand ==
    \A i \in Invs :
        ArchivalStarted(i) => \A r \in Ranks \ {0} : ~CommandPending(i, r)

\* initialize has returned to run(): it has replayed, or it has found no res_dir
\* and an executable path under which there is a program
Decided(i) ==
    \/ run_executable[i][0] = "False"
    \/ run_executable[i][0] = "True" /\ resolves(executable_path)

\* C20: without mpi4py (MPI_RANK is None) the single process, once initialize has
\* returned its decision, does not end in an exception: after a replay it ends
\* normally, and after a miss it calls the real executable and archives.
C20_RunsAloneWithoutMpi ==
    \A i \in Invs :
        nranks[i] = 0 /\ Decided(i) =>
            /\ pc[i][0] # "raised"
            /\ pc[i][0] \in Terminal =>
                  /\ pc[i][0] = "done"
                  /\ run_executable[i][0] = "True" => Did(i, "call") # {} /\ Did(i, "copy") # {}

(* ------------------------------------------------------------------ *)
(* The data directory after an invocation that failed (Spec)           *)
(* ------------------------------------------------------------------ *)
\* rank 0 of the invocation has ended in _exit
EndedFatally(i) == pc[i][0] \in {"exited", "aborted"}

\* the invocation has changed the data directory: it removed a res_dir or made one
ChangedCache(i) == evicted[i] \/ Did(i, "makedirs") # {}

\* C22: an invocation that ends in the fatal error of _exit has not changed the
\* data directory; in particular, asked to regenerate with no executable path
\* set, it has not removed the res_dir it found.
C22_FatalErrorLeavesCacheUnchanged ==
    \A i \in Invs :
        /\ EndedFatally(i) => ~ChangedCache(i)
        /\ regenerate_data[i] /\ existed[i] /\ executable_path = "" /\ pc[i][0] \in Terminal
              => res_dir[i][0] \in DOMAIN cache

(* ------------------------------------------------------------------ *)
(* Archives of real runs that failed (SpecSeq)                         *)
(* ------------------------------------------------------------------ *)
\* the real executable of invocation i returned a non-zero code
CommandFailed(i) == Did(i, returned(1)) # {}

\* subprocess.call of invocation i raised: there was no program to launch
LaunchFailed(i) ==
    \E r \in Ranks : DidBy(i, r, "call") # {} /\ pc[i][r] = "raised"
                      /\ DidBy(i, r, returned(0)) \cup DidBy(i, r, returned(1)) = {}

\* C23: an invocation whose real executable returned a non-zero code, or could not
\* be launched, creates no res_dir; so no later invocation replays files that a
\* failed run wrote.
C23_NoArchiveOfFailedRun ==
    \A i \in Invs :
        /\ CommandFailed(i) \/ LaunchFailed(i) => Did(i, "makedirs") = {}
        /\ \A j \in Invs \ {i} :
              CommandFailed(i) /\ Replayed(j) =>
                  \A p \in outputs : p \in DOMAIN cwd[j] => cwd[j][p] # RunOutput(i)

(* ------------------------------------------------------------------ *)
(* Submissions of one calculation (SpecSubmit)                         *)
(* ------------------------------------------------------------------ *)
Calls == 1..Len(returns)

\* the number of times the calls so far have invoked scheduler.submit_from_script
Submissions == Len(submitted)

\* C21: over the calls of mock_submit_calculation for one calculation the
\* scheduler's submit_from_script is invoked at most once: a call that finds the
\* job id set returns that job id and does not submit, and a call that finds the
\* res_dir present never submits and, when it returns, returns the job id -1.
C21_SubmitsAtMostOnce ==
    /\ Submissions <= 1
    /\ \A k \in Calls :
          /\ returns[k].job_id # NONE /\ ~returns[k].found /\ returns[k].how = "returned"
                => returns[k].submits = 0 /\ returns[k].result = returns[k].job_id
          /\ returns[k].found
                => /\ returns[k].submits = 0
                   /\ returns[k].how = "returned" => returns[k].result = NOT_SUBMITTED

\* one call has submitted the script, a later call has found the job id set and
\* returned it, and a call has found the res_dir present and returned -1
C21_Witness ==
    \E k, l, m \in Calls :
        /\ k < l
        /\ returns[k].submits = 1
        /\ returns[l].job_id # NONE /\ ~returns[l].found /\ returns[l].how = "returned"
        /\ returns[l].result = returns[k].result
        /\ returns[m].found /\ returns[m].how = "returned"

====
